---- MODULE Spec2Model ----
(***************************************************************************)
(* Model of the MCP transport adapter of inventree-mcp-plugin              *)
(* (inventree_mcp_plugin/mcp_transport.py): MCPView.dispatch, the auth     *)
(* gate in front of it, and _handle_mcp_request with its receive/send      *)
(* closures.  One behaviour of Spec is one call of MCPView.dispatch.       *)
(*                                                                         *)
(* Python values are written as strings ("True", "False", "None") where a  *)
(* variable can hold values of several Python types.  Bytes and text are   *)
(* sequences of character codes.                                           *)
(***************************************************************************)
EXTENDS Integers, Sequences, FiniteSets, TLC

(***************************************************************************)
(* Bounds of the model.                                                    *)
(***************************************************************************)
\* most messages the engine passes to the send closure in one exchange
MaxEvents == 3
\* most (name, value) pairs in the header list of one start event
MaxHeaders == 2
\* most messages passed to the send closure of each of two concurrent calls
MaxPairEvents == 2
\* most ids in the part_ids argument of delete_parts
MaxPartIds == 2
\* number of rows of the category (location) table
MaxNodes == 3
\* most names in a fields argument
MaxFields == 2
\* most tasks left pending on the loop when the exchange ends
MaxTasks == 2
\* most tasks created on the loop while the cancelled tasks unwind
MaxLateTasks == 1
\* most headers of the request the scope is built from
MaxRequestHeaders == 2
\* most bytes in the body of that request
MaxBodyLen == 11
\* most calls of the receive closure in one exchange
MaxReceives == 2

(***************************************************************************)
(* Program constants.                                                      *)
(***************************************************************************)
\* _REQUEST_TIMEOUT_SECONDS, as formatted by f"{...:.0f}" in the 504 message
_REQUEST_TIMEOUT_SECONDS == 60

(***************************************************************************)
(* Inputs.                                                                 *)
(***************************************************************************)
\* The web request as the auth gate sees it: whether it has a `user`
\* attribute and, when it has, the value of user.is_authenticated.
Requests ==
    { [has_user |-> FALSE, is_authenticated |-> FALSE],
      [has_user |-> TRUE,  is_authenticated |-> FALSE],
      [has_user |-> TRUE,  is_authenticated |-> TRUE] }

\* What the plugin registry and the settings store do in this call:
\*   lookup  - registry import / get_plugin raises, returns None, or
\*             returns the plugin;
\*   setting - plugin.get_setting("REQUIRE_AUTH") raises, or returns
\*             True, False or None (only read when the plugin was found).
Environments ==
    { [lookup |-> "raises", setting |-> "unread"],
      [lookup |-> "absent", setting |-> "unread"] }
    \cup { [lookup |-> "found", setting |-> s] :
             s \in {"raises", "True", "False", "None"} }

\* Exceptions the exchange can raise, by Python class, with a message text.
\*   "ValueError"     stands for any Exception subclass other than TimeoutError
\*   "TimeoutError"   the builtin TimeoutError (asyncio.TimeoutError is the
\*                    same class), raised by the engine or a tool itself
\*   "CancelledError" stands for the BaseException subclasses that are not
\*                    Exception subclasses
ExcTypes == {"ValueError", "TimeoutError", "CancelledError"}
ExcMessages == {"boom", "secret"}
Exceptions == [type : ExcTypes, msg : ExcMessages]
NoExc == [type |-> "none", msg |-> ""]

\* Python's class hierarchy, as far as the except clauses of dispatch
\* distinguish it.
IsInstance(exc, cls) ==
    CASE cls = "TimeoutError"  -> exc.type = "TimeoutError"
      [] cls = "Exception"     -> exc.type \in {"ValueError", "TimeoutError"}
      [] cls = "BaseException" -> exc.type \in ExcTypes
      [] OTHER                 -> FALSE

\* Header names and values the engine sends, as bytes: "A", "a"; "1", "2".
HeaderNames == { <<65>>, <<97>> }
HeaderValues == { <<49>>, <<50>> }
HeaderPairs == HeaderNames \X HeaderValues

RECURSIVE SeqsUpTo(_, _)
SeqsUpTo(S, n) ==
    IF n = 0 THEN { <<>> }
    ELSE LET shorter == SeqsUpTo(S, n - 1)
         IN  shorter \cup { Append(s, x) : s \in { t \in shorter : Len(t) = n - 1 }, x \in S }

HeaderLists == SeqsUpTo(HeaderPairs, MaxHeaders)

\* Messages the engine passes to the send closure.
StartStatuses == {200, 404}
BodyChunks == { <<1>>, <<2>> }
Messages ==
    { [type |-> "http.response.start", status |-> s, headers |-> h, body |-> <<>>] :
        s \in StartStatuses, h \in HeaderLists }
    \cup { [type |-> "http.response.body", status |-> 0, headers |-> <<>>, body |-> b] :
             b \in BodyChunks }
    \cup { [type |-> "http.response.trailers", status |-> 0, headers |-> <<>>, body |-> <<>>] }

(***************************************************************************)
(* State.                                                                  *)
(***************************************************************************)
VARIABLES
    pc,               \* position of dispatch
    request,          \* the request being dispatched
    env,              \* what registry and settings store do in this call
    plugin,           \* local `plugin` of dispatch: "None" or "plugin"
    require_auth,     \* local `require_auth` of dispatch
    loops_created,    \* number of asyncio.new_event_loop() calls
    loops_closed,     \* number of loop.close() calls
    sessions,         \* number of StreamableHTTPSessionManager constructed
    run_entered,      \* session_manager.run() block entered / exited
    handle_calls,     \* number of session_manager.handle_request calls
    response_started, \* the dict of the same name in _handle_mcp_request
    response_body,    \* the bytearray of the same name
    timed_out,        \* the timeout of asyncio.wait_for has fired
    exc,              \* exception in flight in dispatch, NoExc if none
    response,         \* what dispatch returns, NoResponse until it does
    raised,           \* what dispatch propagates to the caller, NoExc if nothing
    path,             \* history: which exit of dispatch was taken
    fault,            \* history: the exception the exchange raised, if any
    sent,             \* history: the messages passed to send, in order
                      \* (start events without their header list)
    tasks_pending,    \* asyncio.all_tasks(loop): tasks of the loop not yet done
    cancel_calls,     \* history: number of task.cancel() calls of the cleanup
    sent_at_timeout,  \* history: Len(sent) when the timeout fired, -1 before
    tasks_late,       \* tasks created on the loop while the cancelled tasks
                      \* unwound: they are not in the set the cleanup gathered
    worker            \* the thread-pool thread a tool function runs on

dispatch_vars ==
    << pc, request, env, plugin, require_auth, loops_created, loops_closed,
       sessions, run_entered, handle_calls, response_started, response_body,
       timed_out, exc, response, raised, path, fault, sent,
       tasks_pending, cancel_calls, sent_at_timeout, tasks_late, worker >>

\* two dispatch calls on two worker threads of the web server
VARIABLES
    threads,          \* per thread: position, references to the objects the
                      \* call created, messages passed to its send closure,
                      \* response
    heap              \* the objects created so far, by identity

pair_vars == << threads, heap >>

\* the tool layer: the import of the server module, then one tool call
VARIABLES
    imported,         \* number of tool modules imported by mcp_server so far
    registry,         \* the tools registered with the engine, in order
    call              \* the tool call in progress: inputs, locals, result

tool_vars == << imported, registry, call >>

\* the inbound side of one exchange: the scope and the receive closure
VARIABLES
    inbound           \* the request, the scope built from it, and what the
                      \* receive closure has returned so far

inbound_vars == << inbound >>

vars == << dispatch_vars, pair_vars, tool_vars, inbound_vars >>

NoResponse == [status |-> 0]

(***************************************************************************)
(* Helpers: Python dicts, truthiness, text.                                *)
(***************************************************************************)
\* d.get(k, default) for a dict modelled as a function
DictGet(d, k, default) == IF k \in DOMAIN d THEN d[k] ELSE default

\* bool(v) for the values require_auth can hold
Truthy(v) == v \notin {"False", "None"}

\* bytes.decode("latin-1"): byte b becomes the character with code point b
DecodeLatin1(bytes) == [i \in DOMAIN bytes |-> bytes[i] % 256]

\* str.lower() on ASCII text
Lower(text) ==
    [i \in DOMAIN text |-> IF text[i] \in 65..90 THEN text[i] + 32 ELSE text[i]]

(***************************************************************************)
(* django.http responses.  A response is a status, a payload (json for a   *)
(* JsonResponse, content for an HttpResponse) and the header store.  The   *)
(* header store of Django is a case-insensitive mapping: it is keyed by    *)
(* the lower-cased name and keeps the (name, value) last assigned.  The    *)
(* Content-Type header Django adds by default is left out.                 *)
(***************************************************************************)
NoHeaders == [n \in {} |-> <<>>]

JsonResponse(data, status) ==
    [status |-> status, json |-> data, headers |-> NoHeaders]

HttpResponse(content, status) ==
    [status |-> status, content |-> content, headers |-> NoHeaders]

\* response[name] = value
SetHeader(resp, name, value) ==
    LET k == Lower(name)
        h == resp.headers
    IN  [resp EXCEPT !.headers =
            [n \in DOMAIN h \cup {k} |-> IF n = k THEN <<name, value>> ELSE h[n]]]

\* the (name, value) pairs a response carries
HeaderItems(resp) == { resp.headers[k] : k \in DOMAIN resp.headers }

(***************************************************************************)
(* The auth gate.                                                          *)
(***************************************************************************)
\* _check_auth(request)
_check_auth(req) == req.has_user /\ req.is_authenticated

\* _get_plugin_instance(): the registry's answer, None when it raises
_get_plugin_instance(e) == IF e.lookup = "found" THEN "plugin" ELSE "None"

SafeDefault_open == "False"

\* `require_auth = True  # safe default`
SafeDefault == "True"

Denied_ignores_setting(ra, req) == ~ _check_auth(req)

\* `if require_auth and not _check_auth(request)`
Denied(ra, req) == Truthy(ra) /\ ~ _check_auth(req)

\* the three JSON-RPC error envelopes of dispatch
AuthRequiredResponse ==
    JsonResponse(
        [jsonrpc |-> "2.0",
         error |-> [code |-> -32000,
                    message |-> <<"Authentication required. Provide a valid Token, Bearer, or Basic credential.">>],
         id |-> "None"],
        401)

TimeoutResponse ==
    JsonResponse(
        [jsonrpc |-> "2.0",
         error |-> [code |-> -32000,
                    message |-> <<"Request timed out after ", ToString(_REQUEST_TIMEOUT_SECONDS), "s">>],
         id |-> "None"],
        504)

InternalErrorResponse_leaks(e) ==
    JsonResponse(
        [jsonrpc |-> "2.0",
         error |-> [code |-> -32603, message |-> <<"Internal server error", e.msg>>],
         id |-> "None"],
        500)

\* the response of the `except Exception:` block, e the exception caught
InternalErrorResponse(e) ==
    JsonResponse(
        [jsonrpc |-> "2.0",
         error |-> [code |-> -32603, message |-> <<"Internal server error">>],
         id |-> "None"],
        500)

ExceptClauses_swapped == << "Exception", "TimeoutError" >>

\* the except clauses of dispatch, in source order
ExceptClauses == << "TimeoutError", "Exception" >>

\* the clause that catches e: the first one whose class e is an instance of
ExceptClause(e) ==
    IF \E i \in DOMAIN ExceptClauses : IsInstance(e, ExceptClauses[i])
    THEN LET first == CHOOSE i \in DOMAIN ExceptClauses :
                        /\ IsInstance(e, ExceptClauses[i])
                        /\ \A j \in 1..(i - 1) : ~ IsInstance(e, ExceptClauses[j])
         IN  ExceptClauses[first]
    ELSE "uncaught"

(***************************************************************************)
(* Building the web response from what the send closure recorded.          *)
(***************************************************************************)
ResponseStatus_ok(started) == DictGet(started, "status", 200)

\* `status = response_started.get("status", 500)`
ResponseStatus(started) == DictGet(started, "status", 500)

\* the `for key, value in response_started.get("headers", [])` loop
RECURSIVE CopyHeaders(_, _)
CopyHeaders(resp, headers) ==
    IF headers = <<>> THEN resp
    ELSE CopyHeaders(SetHeader(resp, DecodeLatin1(Head(headers)[1]),
                                     DecodeLatin1(Head(headers)[2])),
                     Tail(headers))

\* lines 131-138 of _handle_mcp_request
BuildResponse(started, body) ==
    CopyHeaders(HttpResponse(body, ResponseStatus(started)),
                DictGet(started, "headers", <<>>))

(***************************************************************************)
(* Each specification explores one part of the program; the state of the   *)
(* other parts stays as these predicates fix it.                           *)
(***************************************************************************)
PairIdle ==
    /\ threads = <<>>
    /\ heap = <<>>

ToolsIdle ==
    /\ imported = 0
    /\ registry = <<>>
    /\ call = [tool |-> "none"]

InboundIdle == inbound = [pc |-> "off"]

(***************************************************************************)
(* Init: dispatch is called with some request in some environment.         *)
(***************************************************************************)
Init ==
    /\ pc = "get_plugin"
    /\ request \in Requests
    /\ env \in Environments
    /\ plugin = "None"
    /\ require_auth = "unset"
    /\ loops_created = 0
    /\ loops_closed = 0
    /\ sessions = 0
    /\ run_entered = "no"
    /\ handle_calls = 0
    /\ response_started = <<>>
    /\ response_body = <<>>
    /\ timed_out = FALSE
    /\ exc = NoExc
    /\ fault = NoExc
    /\ path = "none"
    /\ response = NoResponse
    /\ raised = NoExc
    /\ sent = <<>>
    /\ tasks_pending = 0
    /\ cancel_calls = 0
    /\ sent_at_timeout = -1
    /\ tasks_late = 0
    /\ worker = "idle"
    /\ PairIdle
    /\ ToolsIdle
    /\ InboundIdle

cleanup_vars == << tasks_pending, cancel_calls, tasks_late >>

exchange_vars == << sessions, run_entered, handle_calls, response_started,
                    response_body, timed_out, exc, fault, sent >>
gate_vars == << request, env, plugin, require_auth >>
loop_vars == << loops_created, loops_closed >>
result_vars == << path, response, raised >>

(***************************************************************************)
(* dispatch, up to the auth gate (lines 151-168).                          *)
(***************************************************************************)
\* plugin = _get_plugin_instance(); require_auth = True
GetPlugin ==
    /\ pc = "get_plugin"
    /\ plugin' = _get_plugin_instance(env)
    /\ require_auth' = SafeDefault
    /\ pc' = "read_setting"
    /\ UNCHANGED << request, env, loop_vars, exchange_vars, result_vars >>
    /\ UNCHANGED << cleanup_vars, sent_at_timeout >>
    /\ UNCHANGED << worker, pair_vars, tool_vars, inbound_vars >>

\* if plugin is not None: with suppress(Exception): require_auth = get_setting(..)
ReadSetting ==
    /\ pc = "read_setting"
    /\ require_auth' = IF plugin # "None" /\ env.setting # "raises"
                       THEN env.setting
                       ELSE require_auth
    /\ pc' = "auth_gate"
    /\ UNCHANGED << request, env, plugin, loop_vars, exchange_vars, result_vars >>
    /\ UNCHANGED << cleanup_vars, sent_at_timeout >>
    /\ UNCHANGED << worker, pair_vars, tool_vars, inbound_vars >>

AuthGate_session_first ==
    /\ pc = "auth_gate"
    /\ IF Denied(require_auth, request)
       THEN /\ response' = AuthRequiredResponse
            /\ path' = "deny"
            /\ pc' = "returned"
            /\ sessions' = sessions + 1
       ELSE /\ pc' = "new_loop"
            /\ UNCHANGED << response, path, sessions >>
    /\ UNCHANGED << gate_vars, loop_vars, run_entered, handle_calls, response_started,
                    response_body, timed_out, exc, fault, sent, raised >>
    /\ UNCHANGED << cleanup_vars, sent_at_timeout >>
    /\ UNCHANGED << worker, pair_vars, tool_vars, inbound_vars >>

\* the `if require_auth and not _check_auth(request): return JsonResponse(.., 401)`
AuthGate ==
    /\ pc = "auth_gate"
    /\ IF Denied(require_auth, request)
       THEN /\ response' = AuthRequiredResponse
            /\ path' = "deny"
            /\ pc' = "returned"
       ELSE /\ pc' = "new_loop"
            /\ UNCHANGED << response, path >>
    /\ UNCHANGED << gate_vars, loop_vars, exchange_vars, raised >>
    /\ UNCHANGED << cleanup_vars, sent_at_timeout >>
    /\ UNCHANGED << worker, pair_vars, tool_vars, inbound_vars >>

(***************************************************************************)
(* dispatch past the gate: the event loop and the exchange                 *)
(* (_handle_mcp_request run under asyncio.wait_for, lines 171-177).        *)
(***************************************************************************)
\* loop = asyncio.new_event_loop()
NewEventLoop ==
    /\ pc = "new_loop"
    /\ loops_created' = loops_created + 1
    /\ pc' = "new_session"
    /\ UNCHANGED << gate_vars, loops_closed, exchange_vars, result_vars >>
    /\ UNCHANGED << cleanup_vars, sent_at_timeout >>
    /\ UNCHANGED << worker, pair_vars, tool_vars, inbound_vars >>

\* session_manager = _new_session_manager()
NewSessionManager ==
    /\ pc = "new_session"
    /\ sessions' = sessions + 1
    /\ pc' = "build_scope"
    /\ UNCHANGED << gate_vars, loop_vars, run_entered, handle_calls, response_started,
                    response_body, timed_out, exc, fault, sent, result_vars >>
    /\ UNCHANGED << cleanup_vars, sent_at_timeout >>
    /\ UNCHANGED << worker, pair_vars, tool_vars, inbound_vars >>

\* scope = _build_asgi_scope(request); response_started = {}; response_body = bytearray()
BuildScope ==
    /\ pc = "build_scope"
    /\ response_started' = <<>>
    /\ response_body' = <<>>
    /\ pc' = "enter_run"
    /\ UNCHANGED << gate_vars, loop_vars, sessions, run_entered, handle_calls,
                    timed_out, exc, fault, sent, result_vars >>
    /\ UNCHANGED << cleanup_vars, sent_at_timeout >>
    /\ UNCHANGED << worker, pair_vars, tool_vars, inbound_vars >>

\* async with session_manager.run():
EnterRun ==
    /\ pc = "enter_run"
    /\ run_entered' = "entered"
    /\ pc' = "handle_request"
    /\ UNCHANGED << gate_vars, loop_vars, sessions, handle_calls, response_started,
                    response_body, timed_out, exc, fault, sent, result_vars >>
    /\ UNCHANGED << cleanup_vars, sent_at_timeout >>
    /\ UNCHANGED << worker, pair_vars, tool_vars, inbound_vars >>

\* await session_manager.handle_request(scope, receive, send): the call
CallHandleRequest ==
    /\ pc = "handle_request"
    /\ handle_calls' = handle_calls + 1
    /\ pc' = "handling"
    /\ UNCHANGED << gate_vars, loop_vars, sessions, run_entered, response_started,
                    response_body, timed_out, exc, fault, sent, result_vars >>
    /\ UNCHANGED << cleanup_vars, sent_at_timeout >>
    /\ UNCHANGED << worker, pair_vars, tool_vars, inbound_vars >>

ExitRun_leaks(state) == state

\* leaving the `async with session_manager.run():` block, by falling off its
\* end or by an exception (CancelledError included) passing through it: the
\* __aexit__ of the context manager runs if the block was entered
ExitRun(state) == IF state = "entered" THEN "exited" ELSE state

\* How many messages the engine sends at most in the exchange explored.  The
\* exchange reads neither request.user nor the plugin settings, so the long
\* exchanges are explored for one outcome of the gate (an authenticated
\* request under REQUIRE_AUTH = True) and exchanges of at most one message
\* for every other request and environment.
EventLimit ==
    IF request.is_authenticated /\ env.lookup = "found" /\ env.setting = "True"
    THEN MaxEvents
    ELSE 1

\* How many tasks the exchange leaves pending on the loop at most.  The
\* cleanup reads nothing of what the send closure recorded, so pending tasks
\* are explored for the exchanges of at most one message.
TaskLimit == IF Len(sent) <= 1 THEN MaxTasks ELSE 0

Send_start_resets_body(message) ==
    /\ pc \in {"handling", "cancelling"}
    /\ Len(sent) < EventLimit
    /\ pc = "cancelling" => message.headers = <<>>
    /\ worker = "idle"
    /\ IF message.type = "http.response.start"
       THEN /\ response_started' = [status |-> message.status, headers |-> message.headers]
            /\ response_body' = <<>>
       ELSE IF message.type = "http.response.body"
       THEN /\ response_body' = response_body \o message.body
            /\ UNCHANGED response_started
       ELSE UNCHANGED << response_started, response_body >>
    /\ sent' = Append(sent, [type |-> message.type, status |-> message.status,
                             body |-> message.body])
    /\ UNCHANGED << pc, gate_vars, loop_vars, sessions, run_entered, handle_calls,
                    timed_out, exc, fault, result_vars >>
    /\ UNCHANGED << cleanup_vars, sent_at_timeout >>
    /\ UNCHANGED << worker, pair_vars, tool_vars, inbound_vars >>

\* the send closure, called by the engine with one message.  What it records
\* while the exchange is being cancelled is dropped with the frame, so start
\* events with a header list are explored before the timeout only.  The
\* engine sends its response after the tool it awaits has returned.
Send(message) ==
    /\ pc \in {"handling", "cancelling"}
    /\ Len(sent) < EventLimit
    /\ pc = "cancelling" => message.headers = <<>>
    /\ worker = "idle"
    /\ IF message.type = "http.response.start"
       THEN /\ response_started' = [status |-> message.status, headers |-> message.headers]
            /\ UNCHANGED response_body
       ELSE IF message.type = "http.response.body"
       THEN /\ response_body' = response_body \o message.body
            /\ UNCHANGED response_started
       ELSE UNCHANGED << response_started, response_body >>
    /\ sent' = Append(sent, [type |-> message.type, status |-> message.status,
                             body |-> message.body])
    /\ UNCHANGED << pc, gate_vars, loop_vars, sessions, run_entered, handle_calls,
                    timed_out, exc, fault, result_vars >>
    /\ UNCHANGED << cleanup_vars, sent_at_timeout >>
    /\ UNCHANGED << worker, pair_vars, tool_vars, inbound_vars >>

\* the engine calls a tool: django_orm has wrapped the function in
\* sync_to_async(fn, thread_sensitive=False), so the call hands the function
\* to a thread of the pool and the exchange awaits its result.  Tool calls
\* are explored before the first message of the exchange.
ToolStarts ==
    /\ pc = "handling"
    /\ worker = "idle"
    /\ sent = <<>>
    /\ worker' = "running"
    /\ UNCHANGED << pc, gate_vars, loop_vars, exchange_vars, result_vars,
                    cleanup_vars, sent_at_timeout >>
    /\ UNCHANGED << pair_vars, tool_vars, inbound_vars >>

\* the tool function runs to its end on its thread.  A thread cannot be
\* interrupted: cancelling the task that awaits it, or closing the loop,
\* leaves the function running, so this step is possible at every position
\* of dispatch and after dispatch has returned.
ToolFinishes ==
    /\ worker = "running"
    /\ worker' = "idle"
    /\ UNCHANGED << pc, gate_vars, loop_vars, exchange_vars, result_vars,
                    cleanup_vars, sent_at_timeout >>
    /\ UNCHANGED << pair_vars, tool_vars, inbound_vars >>

\* handle_request returns normally, every tool it awaited having returned
HandleRequestReturns ==
    /\ pc = "handling"
    /\ worker = "idle"
    /\ pc' = "exit_run"
    /\ UNCHANGED << gate_vars, loop_vars, exchange_vars, result_vars >>
    /\ UNCHANGED << cleanup_vars, sent_at_timeout >>
    /\ UNCHANGED << worker, pair_vars, tool_vars, inbound_vars >>

\* the run() block is left, the response is built (lines 131-138) and
\* dispatch reaches `return response`
ExitRunAndBuildResponse ==
    /\ pc = "exit_run"
    /\ run_entered' = ExitRun(run_entered)
    /\ response' = BuildResponse(response_started, response_body)
    /\ path' = "return"
    /\ pc' = "finally"
    /\ UNCHANGED << gate_vars, loop_vars, sessions, handle_calls, response_started,
                    response_body, timed_out, exc, fault, sent, raised >>
    /\ tasks_pending' \in 0..TaskLimit
    /\ UNCHANGED << cancel_calls, tasks_late, sent_at_timeout >>
    /\ UNCHANGED << worker, pair_vars, tool_vars, inbound_vars >>

\* positions of the exchange at which the coroutine can raise
RaisePcs == {"new_session", "build_scope", "enter_run", "handle_request",
             "handling", "exit_run"}

\* positions at which the coroutine is suspended, so that the timer of
\* wait_for can run
AwaitPcs == {"handling", "exit_run"}

\* the exchange raises e before the timeout has fired; the frame of
\* _handle_mcp_request is unwound and its locals are gone
ExchangeRaises(e) ==
    /\ pc \in RaisePcs
    /\ ~ timed_out
    /\ exc' = e
    /\ fault' = e
    /\ run_entered' = ExitRun(run_entered)
    /\ response_started' = <<>>
    /\ response_body' = <<>>
    /\ pc' = "except"
    /\ UNCHANGED << gate_vars, loop_vars, sessions, handle_calls, timed_out, sent,
                    result_vars >>
    /\ tasks_pending' \in 0..TaskLimit
    /\ UNCHANGED << cancel_calls, tasks_late, sent_at_timeout >>
    /\ UNCHANGED << worker, pair_vars, tool_vars, inbound_vars >>

\* the timeout of wait_for fires: the exchange is cancelled
TimeoutFires ==
    /\ pc \in AwaitPcs
    /\ timed_out' = TRUE
    /\ pc' = "cancelling"
    /\ UNCHANGED << gate_vars, loop_vars, sessions, run_entered, handle_calls,
                    response_started, response_body, exc, fault, sent, result_vars >>
    /\ sent_at_timeout' = Len(sent)
    /\ UNCHANGED cleanup_vars
    /\ UNCHANGED << worker, pair_vars, tool_vars, inbound_vars >>

CancelAcknowledged_keeps_started ==
    /\ pc = "cancelling"
    /\ run_entered' = ExitRun(run_entered)
    /\ IF "status" \in DOMAIN response_started
       THEN /\ response' = BuildResponse(response_started, response_body)
            /\ path' = "return"
            /\ pc' = "finally"
            /\ UNCHANGED << exc, response_started, response_body >>
       ELSE /\ exc' = [type |-> "TimeoutError", msg |-> ""]
            /\ response_started' = <<>>
            /\ response_body' = <<>>
            /\ pc' = "except"
            /\ UNCHANGED << response, path >>
    /\ UNCHANGED << gate_vars, loop_vars, sessions, handle_calls, timed_out, fault,
                    sent, raised >>
    /\ tasks_pending' \in 0..TaskLimit
    /\ UNCHANGED << cancel_calls, tasks_late, sent_at_timeout >>
    /\ UNCHANGED << worker, pair_vars, tool_vars, inbound_vars >>

\* the cancelled exchange has unwound (leaving the run() block, dropping the
\* locals of _handle_mcp_request); wait_for raises TimeoutError into dispatch
CancelAcknowledged ==
    /\ pc = "cancelling"
    /\ run_entered' = ExitRun(run_entered)
    /\ exc' = [type |-> "TimeoutError", msg |-> ""]
    /\ response_started' = <<>>
    /\ response_body' = <<>>
    /\ pc' = "except"
    /\ UNCHANGED << gate_vars, loop_vars, sessions, handle_calls, timed_out, fault,
                    sent, result_vars >>
    /\ tasks_pending' \in 0..TaskLimit
    /\ UNCHANGED << cancel_calls, tasks_late, sent_at_timeout >>
    /\ UNCHANGED << worker, pair_vars, tool_vars, inbound_vars >>

\* the except clauses of dispatch (lines 178-208); an exception no clause
\* catches stays in flight
HandleException ==
    /\ pc = "except"
    /\ LET clause == ExceptClause(exc)
       IN  CASE clause = "TimeoutError" ->
                  /\ response' = TimeoutResponse
                  /\ path' = "timeout"
                  /\ exc' = NoExc
             [] clause = "Exception" ->
                  /\ response' = InternalErrorResponse(exc)
                  /\ path' = "error"
                  /\ exc' = NoExc
             [] OTHER ->
                  /\ path' = "propagate"
                  /\ UNCHANGED << response, exc >>
    /\ pc' = "finally"
    /\ UNCHANGED << gate_vars, loop_vars, sessions, run_entered, handle_calls,
                    response_started, response_body, timed_out, fault, sent, raised >>
    /\ UNCHANGED << cleanup_vars, sent_at_timeout >>
    /\ UNCHANGED << worker, pair_vars, tool_vars, inbound_vars >>

CancelPendingTasks_skips_cancel ==
    /\ pc = "finally"
    /\ pc' = "close_loop"
    /\ UNCHANGED << tasks_pending, cancel_calls, tasks_late >>
    /\ UNCHANGED << gate_vars, loop_vars, exchange_vars, result_vars, sent_at_timeout >>
    /\ UNCHANGED << worker, pair_vars, tool_vars, inbound_vars >>

\* finally: _cancel_pending_tasks(loop).  With no pending task it returns at
\* once; otherwise every task of the snapshot `pending` is cancelled and the
\* loop is run until those tasks have finished (gather with
\* return_exceptions=True collects what they raise, suppress(Exception)
\* swallows the rest).  While the loop runs, a cancelled task may create
\* tasks in its handlers; they are not in `pending`, all_tasks is not read
\* again, and run_until_complete returns without waiting for them
CancelPendingTasks ==
    /\ pc = "finally"
    /\ IF tasks_pending = 0
       THEN UNCHANGED << tasks_pending, cancel_calls, tasks_late >>
       ELSE /\ cancel_calls' = cancel_calls + tasks_pending
            /\ tasks_pending' = 0
            /\ tasks_late' \in 0..MaxLateTasks
    /\ pc' = "close_loop"
    /\ UNCHANGED << gate_vars, loop_vars, exchange_vars, result_vars, sent_at_timeout >>
    /\ UNCHANGED << worker, pair_vars, tool_vars, inbound_vars >>

\* finally: loop.close(); then dispatch returns its response or propagates
\* the exception still in flight
Finally ==
    /\ pc = "close_loop"
    /\ loops_closed' = loops_closed + 1
    /\ raised' = exc
    /\ pc' = "returned"
    /\ UNCHANGED << gate_vars, loops_created, exchange_vars, path, response >>
    /\ UNCHANGED << cleanup_vars, sent_at_timeout >>
    /\ UNCHANGED << worker, pair_vars, tool_vars, inbound_vars >>

Next ==
    \/ GetPlugin
    \/ ReadSetting
    \/ AuthGate
    \/ NewEventLoop
    \/ NewSessionManager
    \/ BuildScope
    \/ EnterRun
    \/ CallHandleRequest
    \/ \E message \in Messages : Send(message)
    \/ ToolStarts
    \/ ToolFinishes
    \/ HandleRequestReturns
    \/ ExitRunAndBuildResponse
    \/ \E e \in Exceptions : ExchangeRaises(e)
    \/ TimeoutFires
    \/ CancelAcknowledged
    \/ HandleException
    \/ CancelPendingTasks
    \/ Finally

Spec == Init /\ [][Next]_vars

(***************************************************************************)
(* Vocabulary of the properties.                                           *)
(***************************************************************************)
\* the request carries no authenticated principal
Unauthenticated == ~ request.has_user \/ ~ request.is_authenticated

\* dispatch has evaluated the auth gate
PastGate == pc \notin {"get_plugin", "read_setting", "auth_gate"}

\* the REQUIRE_AUTH setting is true, or cannot be read
SettingTrueOrUnreadable ==
    \/ env.lookup \in {"raises", "absent"}
    \/ env.lookup = "found" /\ env.setting \in {"raises", "True"}

\* the REQUIRE_AUTH setting was read and is the boolean false
SettingReadsFalse == env.lookup = "found" /\ env.setting = "False"

\* a response is one of the JSON-RPC error envelopes, with this status and code
IsEnvelope(resp, status, code) ==
    /\ resp.status = status
    /\ "json" \in DOMAIN resp
    /\ resp.json.jsonrpc = "2.0"
    /\ resp.json.error.code = code
    /\ resp.json.id = "None"

StartIndices == { i \in DOMAIN sent : sent[i].type = "http.response.start" }
BodyIndices == { i \in DOMAIN sent : sent[i].type = "http.response.body" }

\* the start event recorded when the exchange ended: the last one sent
RecordedStart == sent[CHOOSE i \in StartIndices : \A j \in StartIndices : j <= i]

\* the payloads of the body events of a message sequence, concatenated in order
RECURSIVE BodyConcat(_)
BodyConcat(msgs) ==
    IF msgs = <<>> THEN <<>>
    ELSE (IF Head(msgs).type = "http.response.body" THEN Head(msgs).body ELSE <<>>)
         \o BodyConcat(Tail(msgs))

(***************************************************************************)
(* C1: a request without an authenticated principal, while REQUIRE_AUTH is *)
(* true or unreadable (registry lookup raises, plugin not registered,      *)
(* get_setting raises), is answered by dispatch with status 401 and a body *)
(* with jsonrpc "2.0", error.code -32000 and id null; it never gets past   *)
(* the gate.                                                               *)
(***************************************************************************)
C1_MissingCredentialsGet401 ==
    (PastGate /\ Unauthenticated /\ SettingTrueOrUnreadable)
        => /\ pc = "returned"
           /\ raised = NoExc
           /\ IsEnvelope(response, 401, -32000)

C1_Witness ==
    /\ pc = "returned"
    /\ ~ request.has_user
    /\ env.lookup = "found" /\ env.setting = "raises"
    /\ response.status = 401

(***************************************************************************)
(* C2: when dispatch ends in the 401 denial, no session manager was        *)
(* constructed, no event loop was created (or closed), the run() block was *)
(* not entered, handle_request was not called and send received nothing.   *)
(***************************************************************************)
C2_DenialExcludesEngine ==
    (path = "deny")
        => /\ sessions = 0
           /\ loops_created = 0
           /\ loops_closed = 0
           /\ run_entered = "no"
           /\ handle_calls = 0
           /\ sent = <<>>

C2_Witness ==
    /\ pc = "returned"
    /\ path = "deny"
    /\ request.has_user /\ ~ request.is_authenticated
    /\ env.setting = "True"

(***************************************************************************)
(* C3 (as claimed): an unauthenticated request gets past the auth gate     *)
(* only if the plugin was found and reading REQUIRE_AUTH returned the      *)
(* boolean false; for every other outcome of the read, a None result       *)
(* included, it is denied.                                                 *)
(***************************************************************************)
C3_FailClosed ==
    (PastGate /\ Unauthenticated /\ path # "deny") => SettingReadsFalse

(***************************************************************************)
(* C4: when REQUIRE_AUTH reads as false, dispatch never returns the 401    *)
(* denial, whether or not the request carries an authenticated principal:  *)
(* past the gate it is in the exchange, or has ended on another exit.      *)
(***************************************************************************)
C4_SettingFalseBypassesGate ==
    (PastGate /\ SettingReadsFalse)
        => /\ path # "deny"
           /\ response # AuthRequiredResponse
           /\ (pc = "new_loop" \/ loops_created = 1)

C4_Witness ==
    /\ pc = "returned"
    /\ SettingReadsFalse
    /\ ~ request.has_user
    /\ path = "return"
    /\ response.status = 200

(***************************************************************************)
(* C5: when the timeout fires before the exchange has completed, dispatch  *)
(* raises nothing and returns status 504 with error.code -32000 and id     *)
(* null.                                                                   *)
(***************************************************************************)
C5_TimeoutGives504 ==
    (pc = "returned" /\ timed_out)
        => /\ raised = NoExc
           /\ IsEnvelope(response, 504, -32000)

C5_Witness ==
    /\ pc = "returned"
    /\ timed_out
    /\ path = "timeout"
    /\ StartIndices # {}
    /\ loops_closed = 1

(***************************************************************************)
(* C6 (as claimed): whatever exception the exchange raises before the      *)
(* timeout fires, of whatever type, dispatch returns status 500 with       *)
(* error.code -32603 and id null.                                          *)
(***************************************************************************)
C6_AnyFaultGives500 ==
    (pc = "returned" /\ fault # NoExc /\ ~ timed_out)
        => /\ raised = NoExc
           /\ IsEnvelope(response, 500, -32603)

(***************************************************************************)
(* C7: the 500 response dispatch generates for a fault does not depend on  *)
(* the fault: whatever the type and message of the exception caught, the   *)
(* response is the one fixed "Internal server error" envelope (all such    *)
(* runs return the same constant, hence any two of them return identical   *)
(* status and body), and no response dispatch returns after a fault        *)
(* carries the message of the exception.                                   *)
(***************************************************************************)
C7_FaultResponseIsFixed ==
    /\ (path = "error")
          => response =
                JsonResponse([jsonrpc |-> "2.0",
                              error |-> [code |-> -32603,
                                         message |-> <<"Internal server error">>],
                              id |-> "None"], 500)
    /\ (fault # NoExc /\ "json" \in DOMAIN response)
          => \A i \in DOMAIN response.json.error.message :
                response.json.error.message[i] # fault.msg

C7_Witness ==
    /\ pc = "returned"
    /\ path = "error"
    /\ fault = [type |-> "ValueError", msg |-> "secret"]
    /\ handle_calls = 1

(***************************************************************************)
(* C8: when the exchange returns normally and send received a start event, *)
(* the response status is the status of the recorded start event and the   *)
(* response body is the concatenation, in the order sent, of the payloads  *)
(* of all body events, those sent before the start event included; events  *)
(* of other types change nothing.                                          *)
(***************************************************************************)
C8_StatusAndBodyFromEvents ==
    (path = "return" /\ StartIndices # {})
        => /\ response.status = RecordedStart.status
           /\ response.content = BodyConcat(sent)

C8_Witness ==
    /\ pc = "returned"
    /\ path = "return"
    /\ Len(sent) = 3
    /\ sent[1].type = "http.response.body"
    /\ sent[2].type = "http.response.start"
    /\ sent[3].type = "http.response.body"
    /\ sent[1].body # sent[3].body
    /\ response.status = 404

(***************************************************************************)
(* C9: when the exchange returns normally and send never received a start  *)
(* event, the response has status 500, the body bytes accumulated, and no  *)
(* header of the engine.                                                   *)
(***************************************************************************)
C9_NoStartGives500 ==
    (path = "return" /\ StartIndices = {})
        => /\ response.status = 500
           /\ response.content = BodyConcat(sent)
           /\ HeaderItems(response) = {}

C9_Witness ==
    /\ pc = "returned"
    /\ path = "return"
    /\ StartIndices = {}
    /\ BodyIndices # {}
    /\ response.status = 500

(***************************************************************************)
(* C10 (as claimed): every (name, value) pair of the header list of the    *)
(* recorded start event is on the web response with the same name and the  *)
(* same value, also when two pairs share a name or differ only in the case *)
(* of the name.                                                            *)
(***************************************************************************)
C10_EveryHeaderPairReproduced ==
    (path = "return" /\ "headers" \in DOMAIN response_started)
        => \A i \in DOMAIN response_started.headers :
              << DecodeLatin1(response_started.headers[i][1]),
                 DecodeLatin1(response_started.headers[i][2]) >>
                  \in HeaderItems(response)

(***************************************************************************)
(* Two dispatch calls past the auth gate, interleaved on two threads.      *)
(* Objects live on a heap and are referred to by identity, so that sharing *)
(* an object between two calls is something a state can show.              *)
(***************************************************************************)
\* dispatch is not running: the state of the single-call specification is
\* held fixed
DispatchIdle ==
    /\ pc = "off"
    /\ request = [has_user |-> FALSE, is_authenticated |-> FALSE]
    /\ env = [lookup |-> "absent", setting |-> "unread"]
    /\ plugin = "None"
    /\ require_auth = "unset"
    /\ loops_created = 0
    /\ loops_closed = 0
    /\ sessions = 0
    /\ run_entered = "no"
    /\ handle_calls = 0
    /\ response_started = <<>>
    /\ response_body = <<>>
    /\ timed_out = FALSE
    /\ exc = NoExc
    /\ fault = NoExc
    /\ path = "none"
    /\ response = NoResponse
    /\ raised = NoExc
    /\ sent = <<>>
    /\ tasks_pending = 0
    /\ cancel_calls = 0
    /\ sent_at_timeout = -1
    /\ tasks_late = 0
    /\ worker = "idle"

Threads == {1, 2}

\* the messages of the two exchanges: start events without headers and body
\* events
PairMessages ==
    { m \in Messages : m.type # "http.response.trailers" /\ m.headers = <<>> }

\* the objects a call creates
LoopObject == [kind |-> "loop", closed |-> 0]
SessionObject == [kind |-> "session", app |-> "mcp._mcp_server", runs |-> 0]
DictObject == [kind |-> "dict", value |-> <<>>]
BytearrayObject == [kind |-> "bytearray", value |-> <<>>]

\* a constructor call: the new object gets an identity no object has yet
New(h, obj) == [id |-> Len(h) + 1, heap |-> Append(h, obj)]

_new_session_manager_singleton(h) ==
    IF \E i \in DOMAIN h : h[i].kind = "session"
    THEN [id |-> CHOOSE i \in DOMAIN h : h[i].kind = "session", heap |-> h]
    ELSE New(h, SessionObject)

\* _new_session_manager(): a StreamableHTTPSessionManager constructed on
\* each call, over the shared server object
_new_session_manager(h) == New(h, SessionObject)

InitPair ==
    /\ threads = [r \in Threads |->
                    [pc |-> "new_loop", loop |-> 0, session |-> 0, started |-> 0,
                     body |-> 0, sent |-> <<>>, response |-> NoResponse]]
    /\ heap = <<>>
    /\ DispatchIdle
    /\ ToolsIdle
    /\ InboundIdle

\* loop = asyncio.new_event_loop()
PairNewEventLoop(r) ==
    /\ threads[r].pc = "new_loop"
    /\ LET loop == New(heap, LoopObject)
       IN  /\ heap' = loop.heap
           /\ threads' = [threads EXCEPT ![r].loop = loop.id, ![r].pc = "prologue"]
    /\ UNCHANGED << dispatch_vars, tool_vars, inbound_vars >>

\* _handle_mcp_request up to the run() block: session_manager, then the
\* locals response_started = {} and response_body = bytearray() the send
\* closure captures
PairPrologue(r) ==
    /\ threads[r].pc = "prologue"
    /\ LET session_manager == _new_session_manager(heap)
           started == New(session_manager.heap, DictObject)
           body == New(started.heap, BytearrayObject)
       IN  /\ heap' = body.heap
           /\ threads' = [threads EXCEPT ![r].session = session_manager.id,
                                         ![r].started = started.id,
                                         ![r].body = body.id,
                                         ![r].pc = "enter_run"]
    /\ UNCHANGED << dispatch_vars, tool_vars, inbound_vars >>

\* async with session_manager.run(): await session_manager.handle_request(..)
PairEnterRun(r) ==
    /\ threads[r].pc = "enter_run"
    /\ heap' = [heap EXCEPT ![threads[r].session].runs = @ + 1]
    /\ threads' = [threads EXCEPT ![r].pc = "handling"]
    /\ UNCHANGED << dispatch_vars, tool_vars, inbound_vars >>

\* the send closure of thread r, called by the engine with one message: it
\* writes to the objects it captured
PairSend(r, message) ==
    /\ threads[r].pc = "handling"
    /\ Len(threads[r].sent) < MaxPairEvents
    /\ heap' = IF message.type = "http.response.start"
               THEN [heap EXCEPT ![threads[r].started].value =
                        [status |-> message.status, headers |-> message.headers]]
               ELSE IF message.type = "http.response.body"
               THEN [heap EXCEPT ![threads[r].body].value = @ \o message.body]
               ELSE heap
    /\ threads' = [threads EXCEPT ![r].sent =
                      Append(@, [type |-> message.type, status |-> message.status,
                                 body |-> message.body])]
    /\ UNCHANGED << dispatch_vars, tool_vars, inbound_vars >>

\* the exchange ends and the response is built from the captured objects
PairBuildResponse(r) ==
    /\ threads[r].pc = "handling"
    /\ threads' = [threads EXCEPT
                      ![r].response = BuildResponse(heap[threads[r].started].value,
                                                    heap[threads[r].body].value),
                      ![r].pc = "finally"]
    /\ UNCHANGED << heap, dispatch_vars, tool_vars, inbound_vars >>

\* finally: loop.close(); dispatch returns
PairFinally(r) ==
    /\ threads[r].pc = "finally"
    /\ heap' = [heap EXCEPT ![threads[r].loop].closed = @ + 1]
    /\ threads' = [threads EXCEPT ![r].pc = "returned"]
    /\ UNCHANGED << dispatch_vars, tool_vars, inbound_vars >>

NextPair ==
    \/ \E r \in Threads : PairNewEventLoop(r)
    \/ \E r \in Threads : PairPrologue(r)
    \/ \E r \in Threads : PairEnterRun(r)
    \/ \E r \in Threads, message \in PairMessages : PairSend(r, message)
    \/ \E r \in Threads : PairBuildResponse(r)
    \/ \E r \in Threads : PairFinally(r)

SpecPair == InitPair /\ [][NextPair]_vars

\* the objects thread r has created so far
ObjectsOf(r) ==
    { threads[r].loop, threads[r].session, threads[r].started, threads[r].body } \ {0}

\* what a status/header holder written by these messages alone would hold
StartedFrom(msgs) ==
    LET starts == { i \in DOMAIN msgs : msgs[i].type = "http.response.start" }
    IN  IF starts = {} THEN <<>>
        ELSE [status |-> msgs[CHOOSE i \in starts : \A j \in starts : j <= i].status,
              headers |-> <<>>]

(***************************************************************************)
(* C11: in every interleaving of two dispatch calls past the auth gate,    *)
(* each call has its own event loop, session, status/header holder and     *)
(* body buffer: no object belongs to both calls, no session is run and no  *)
(* loop closed more than once, the holder and the buffer of a call hold    *)
(* exactly what the messages passed to that call's send closure put there, *)
(* and the response of a call is built from those messages alone.          *)
(***************************************************************************)
C11_RequestsShareNothing ==
    /\ \A r, q \in Threads : r # q => ObjectsOf(r) \cap ObjectsOf(q) = {}
    /\ \A r \in Threads : threads[r].pc \notin {"new_loop", "prologue"}
          => Cardinality(ObjectsOf(r)) = 4
    /\ \A i \in DOMAIN heap :
          /\ heap[i].kind = "session" => heap[i].runs <= 1
          /\ heap[i].kind = "loop" => heap[i].closed <= 1
    /\ \A r \in Threads : threads[r].pc \in {"handling", "finally", "returned"}
          => /\ heap[threads[r].started].value = StartedFrom(threads[r].sent)
             /\ heap[threads[r].body].value = BodyConcat(threads[r].sent)
    /\ \A r \in Threads : threads[r].pc \in {"finally", "returned"}
          => threads[r].response = BuildResponse(StartedFrom(threads[r].sent),
                                                 BodyConcat(threads[r].sent))

\* both calls have returned after interleaved steps (the second call made
\* its loop before the first made its session), with different responses
C11_Witness ==
    /\ \A r \in Threads : threads[r].pc = "returned"
    /\ threads[1].loop < threads[2].loop
    /\ threads[2].loop < threads[1].session
    /\ threads[1].response.status = 200
    /\ threads[2].response.status = 404
    /\ threads[1].response.content = <<1>>
    /\ threads[2].response.content = <<2>>

(***************************************************************************)
(* C12: on every path of dispatch past the auth gate (success, timeout,    *)
(* failure) the event loop of the request is closed exactly once: never    *)
(* before the cleanup has cancelled and drained its pending tasks, never   *)
(* twice, and always by the time dispatch returns; the cleanup raises      *)
(* nothing of its own, with pending tasks or with none.                    *)
(***************************************************************************)
C12_LoopClosedOnceAfterCancel ==
    /\ loops_closed <= 1
    /\ loops_closed <= loops_created
    /\ pc = "close_loop" => tasks_pending = 0
    /\ loops_closed = 1 => (pc = "returned" /\ tasks_pending = 0)
    /\ (pc = "returned" /\ path # "deny") => loops_closed = 1
    /\ (pc = "returned" /\ path \in {"return", "timeout", "error"}) => raised = NoExc

C12_Witness ==
    /\ pc = "returned"
    /\ path = "timeout"
    /\ cancel_calls = MaxTasks
    /\ tasks_pending = 0
    /\ loops_closed = 1

(***************************************************************************)
(* C13 (as claimed): dispatch always returns a web response and never      *)
(* propagates an exception, whatever fails, faults of the exchange that    *)
(* are not subclasses of Exception included.                               *)
(***************************************************************************)
C13_DispatchNeverPropagates ==
    pc = "returned" => (raised = NoExc /\ response # NoResponse)

(***************************************************************************)
(* The tool layer: the tool modules imported by mcp_server register their  *)
(* tools with the engine; the engine then calls a registered tool.         *)
(***************************************************************************)
\* a function decorated with @mcp.tool(); django_orm tells whether it is
\* decorated with @django_orm as well, required lists its parameters
\* without a default
Tool(name, orm, required) ==
    [name |-> name, django_orm |-> orm, required |-> required]

\* the tool modules in the order mcp_server imports them, each with its
\* decorated functions in source order
ToolModules == <<
    \* tools/combinatory/parts.py
    << Tool("delete_parts", FALSE, {"part_ids"}) >>,
    \* tools/combinatory/stock.py
    << Tool("stock_by_category_and_location", TRUE, {}),
       Tool("stock_pivot", TRUE, {}) >>,
    \* tools/simple/bom.py
    << Tool("list_bom_items", TRUE, {}),
       Tool("get_bom_for_part", TRUE, {"part_id"}) >>,
    \* tools/simple/builds.py
    << Tool("list_build_orders", TRUE, {}),
       Tool("get_build_order", TRUE, {"build_id"}) >>,
    \* tools/simple/categories.py
    << Tool("list_categories", TRUE, {}),
       Tool("get_category", TRUE, {"category_id"}),
       Tool("get_category_tree", TRUE, {}) >>,
    \* tools/simple/locations.py
    << Tool("list_locations", TRUE, {}),
       Tool("get_location", TRUE, {"location_id"}),
       Tool("get_location_tree", TRUE, {}) >>,
    \* tools/simple/orders.py
    << Tool("list_purchase_orders", TRUE, {}),
       Tool("get_purchase_order", TRUE, {"order_id"}),
       Tool("list_sales_orders", TRUE, {}),
       Tool("get_sales_order", TRUE, {"order_id"}) >>,
    \* tools/simple/parts.py
    << Tool("list_parts", TRUE, {}),
       Tool("get_part", TRUE, {"part_id"}),
       Tool("search_parts", TRUE, {"query"}),
       Tool("create_part", TRUE, {"name", "description", "category_id"}),
       Tool("update_part", TRUE, {"part_id"}) >>,
    \* tools/simple/stock.py
    << Tool("list_stock_items", TRUE, {}),
       Tool("get_stock_item", TRUE, {"stock_item_id"}),
       Tool("adjust_stock", TRUE, {"stock_item_id", "quantity"}),
       Tool("transfer_stock", TRUE, {"stock_item_id", "location_id"}) >>,
    \* tools/simple/tags.py
    << Tool("list_tags", TRUE, {}),
       Tool("search_tags", TRUE, {"query"}) >> >>

\* _EXPECTED_TOOLS of the schema test: tool name and required parameters
_EXPECTED_TOOLS == {
    [name |-> "list_parts", required |-> {}],
    [name |-> "get_part", required |-> {"part_id"}],
    [name |-> "search_parts", required |-> {"query"}],
    [name |-> "create_part", required |-> {"name", "description", "category_id"}],
    [name |-> "update_part", required |-> {"part_id"}],
    [name |-> "list_stock_items", required |-> {}],
    [name |-> "get_stock_item", required |-> {"stock_item_id"}],
    [name |-> "adjust_stock", required |-> {"stock_item_id", "quantity"}],
    [name |-> "transfer_stock", required |-> {"stock_item_id", "location_id"}],
    [name |-> "list_locations", required |-> {}],
    [name |-> "get_location", required |-> {"location_id"}],
    [name |-> "get_location_tree", required |-> {}],
    [name |-> "list_categories", required |-> {}],
    [name |-> "get_category", required |-> {"category_id"}],
    [name |-> "get_category_tree", required |-> {}],
    [name |-> "list_purchase_orders", required |-> {}],
    [name |-> "get_purchase_order", required |-> {"order_id"}],
    [name |-> "list_sales_orders", required |-> {}],
    [name |-> "get_sales_order", required |-> {"order_id"}],
    [name |-> "list_bom_items", required |-> {}],
    [name |-> "get_bom_for_part", required |-> {"part_id"}],
    [name |-> "list_build_orders", required |-> {}],
    [name |-> "get_build_order", required |-> {"build_id"}],
    [name |-> "list_tags", required |-> {}],
    [name |-> "search_tags", required |-> {"query"}],
    [name |-> "delete_parts", required |-> {"part_ids"}],
    [name |-> "stock_by_category_and_location", required |-> {}] }

InitTools ==
    /\ imported = 0
    /\ registry = <<>>
    /\ call = [tool |-> "none"]
    /\ DispatchIdle
    /\ PairIdle
    /\ InboundIdle

\* one `from .tools... import ...` line of mcp_server: the @mcp.tool()
\* decorators of the module run and register its functions
ImportToolModule ==
    /\ imported < Len(ToolModules)
    /\ registry' = registry \o ToolModules[imported + 1]
    /\ imported' = imported + 1
    /\ UNCHANGED << call, dispatch_vars, pair_vars, inbound_vars >>

\* the server module is imported and no tool call is in progress
Serving == imported = Len(ToolModules) /\ call.tool = "none"

RegisteredNames == { registry[i].name : i \in DOMAIN registry }

Registered(name) == registry[CHOOSE i \in DOMAIN registry : registry[i].name = name]

\* The engine calls a tool from the exchange, on the thread of the
\* per-request event loop.  The wrapper of django_orm awaits
\* sync_to_async(fn, thread_sensitive=False), which runs fn on a thread of
\* the pool; a function without the wrapper runs where it is called.
RunsOn(name) == IF Registered(name).django_orm THEN "worker" ELSE "event_loop"

(***************************************************************************)
(* delete_parts (tools/combinatory/parts.py).                              *)
(***************************************************************************)
\* primary keys of the Part rows in the store, and the ids a caller passes
\* (one of them is the key of no row)
StoredPartIds == {1, 2}
PartIdInputs == {1, 2, 3}

\* a Part row: locked and active are its columns, in_bom tells whether a
\* BomItem row has it as sub_part, delete_raises whether part.delete() raises
PartRows(id) ==
    [exists : {TRUE}, name : {<< "Part", id >>}, locked : BOOLEAN, active : BOOLEAN,
     in_bom : BOOLEAN, delete_raises : BOOLEAN]

Stores == { s \in [StoredPartIds -> UNION { PartRows(id) : id \in StoredPartIds }] :
              \A id \in StoredPartIds : s[id] \in PartRows(id) }

\* str(exc) of the exception part.delete() raises
DeleteError == "Cannot delete this part"

\* a call the tool makes on the store, kept in order
Log(c, op, id) == [c EXCEPT !.orm = Append(@, [op |-> op, id |-> id])]

Skip_without_entry(c, entry) == [c EXCEPT !.i = @ + 1]

\* skipped.append(entry); continue
Skip(c, entry) == [c EXCEPT !.skipped = Append(@, entry), !.i = @ + 1]

AssembliesBlock_unchecked(delete_from_assemblies, part) == FALSE

\* not delete_from_assemblies and BomItem.objects.filter(sub_part=part).exists()
AssembliesBlock(delete_from_assemblies, part) ==
    ~ delete_from_assemblies /\ part.in_bom

Deactivate_always_saves(c, part_id) ==
    Log([c EXCEPT !.store[part_id].active = FALSE], "save", part_id)

\* if part.active: part.active = False; part.save()
Deactivate(c, part_id) ==
    IF c.store[part_id].active
    THEN Log([c EXCEPT !.store[part_id].active = FALSE], "save", part_id)
    ELSE c

\* one pass of the `for part_id in part_ids` loop (lines 70-95)
delete_parts_iteration(c) ==
    LET part_id == c.part_ids[c.i]
        got == Log(c, "get", part_id)
    IN  IF ~ (part_id \in DOMAIN c.store /\ c.store[part_id].exists)
        THEN Skip(got, [id |-> part_id, reason |-> "Part not found"])
        ELSE LET part == c.store[part_id]
                 asked == IF c.delete_from_assemblies THEN got
                          ELSE Log(got, "bom_exists", part_id)
             IN  IF part.locked
                 THEN Skip(got, [id |-> part_id, name |-> part.name,
                                 reason |-> "Part is locked"])
                 ELSE IF AssembliesBlock(c.delete_from_assemblies, part)
                 THEN Skip(asked, [id |-> part_id, name |-> part.name,
                                   reason |-> "Part is used in assemblies"])
                 ELSE LET tried == Log(Deactivate(asked, part_id), "delete", part_id)
                      IN  IF part.delete_raises
                          THEN Skip(tried, [id |-> part_id, name |-> part.name,
                                            reason |-> DeleteError])
                          ELSE [tried EXCEPT !.store[part_id].exists = FALSE,
                                             !.deleted = Append(@, part_id),
                                             !.i = @ + 1]

\* the engine calls delete_parts(part_ids, delete_from_assemblies); store0
\* keeps the rows as they were when the call started
CallDeleteParts(part_ids, delete_from_assemblies, store) ==
    /\ Serving
    /\ "delete_parts" \in RegisteredNames
    /\ call' = [tool |-> "delete_parts", thread |-> RunsOn("delete_parts"),
                pc |-> "loop", part_ids |-> part_ids,
                delete_from_assemblies |-> delete_from_assemblies,
                store |-> store, store0 |-> store, i |-> 1,
                deleted |-> <<>>, skipped |-> <<>>,
                orm |-> <<>>, result |-> [returned |-> FALSE]]
    /\ UNCHANGED << imported, registry, dispatch_vars, pair_vars, inbound_vars >>

DeletePartsIteration ==
    /\ call.tool = "delete_parts"
    /\ call.pc = "loop"
    /\ call.i <= Len(call.part_ids)
    /\ call' = delete_parts_iteration(call)
    /\ UNCHANGED << imported, registry, dispatch_vars, pair_vars, inbound_vars >>

\* the return statement (lines 97-102)
DeletePartsReturn ==
    /\ call.tool = "delete_parts"
    /\ call.pc = "loop"
    /\ call.i > Len(call.part_ids)
    /\ call' = [call EXCEPT !.pc = "done",
                            !.result = [returned |-> TRUE,
                                        deleted |-> call.deleted,
                                        deleted_count |-> Len(call.deleted),
                                        skipped |-> call.skipped,
                                        skipped_count |-> Len(call.skipped)]]
    /\ UNCHANGED << imported, registry, dispatch_vars, pair_vars, inbound_vars >>

(***************************************************************************)
(* get_category_tree and get_location_tree (tools/simple/categories.py,    *)
(* tools/simple/locations.py): the same code over two tables.              *)
(***************************************************************************)
\* primary keys of the rows of the table; 0 stands for None (no parent, or
\* no root_id given)
Nodes == 1..MaxNodes

\* the k-th ancestor of n under the parent links p, 0 above the top
RECURSIVE Up(_, _, _)
Up(p, n, k) == IF n = 0 \/ k = 0 THEN n ELSE Up(p, p[n], k - 1)

\* the parent_id column of the table: nothing in the tools keeps a row from
\* being its own parent or ancestor
ParentLinks == [Nodes -> 0..MaxNodes]

\* parent links that form a forest
Forests == { p \in ParentLinks : \A n \in Nodes : Up(p, n, MaxNodes) = 0 }

\* list(Model.objects.all().order_by("name")): the rows in name order
NameOrders == { s \in [1..MaxNodes -> Nodes] : \A i, j \in 1..MaxNodes : s[i] = s[j] => i = j }

\* the name of a row, given the name order: its rank
NameOf(all, n) == << "Name", CHOOSE i \in DOMAIN all : all[i] = n >>

children_map_by_pk(all, parent_id, parent) ==
    SelectSeq([i \in 1..MaxNodes |-> i], LAMBDA n : parent_id[n] = parent)

\* children_map[parent]: the rows with this parent_id, in fetch order; a
\* defaultdict, so the empty list for a key no row has as parent
children_map(all, parent_id, parent) ==
    SelectSeq(all, LAMBDA n : parent_id[n] = parent)

\* the nested function _build(parent)
RECURSIVE _build(_, _, _)
_build(all, parent_id, parent) ==
    LET kids == children_map(all, parent_id, parent)
    IN  [i \in 1..Len(kids) |->
            [id |-> kids[i], name |-> NameOf(all, kids[i]),
             description |-> << "Description", kids[i] >>,
             children |-> _build(all, parent_id, kids[i])]]

\* the frames the interpreter allows the recursion of _build
\* (sys.getrecursionlimit()), scaled to the table: a forest over the rows
\* needs at most MaxNodes + 1 nested calls
RecursionLimit == MaxNodes + 2

\* whether the call _build(parent) nests more than `frames` calls deep:
\* _build has no visited set and no depth test, so it follows the children
\* for as long as there are any
RECURSIVE Exhausts(_, _, _)
Exhausts(parent_id, parent, frames) ==
    IF frames = 0 THEN TRUE
    ELSE \E n \in Nodes : parent_id[n] = parent /\ Exhausts(parent_id, n, frames - 1)

TreeTools == {"get_category_tree", "get_location_tree"}

\* the engine calls get_category_tree(root_id) or get_location_tree(root_id)
\* over a table with these parent links and this name order.  When the
\* recursion does not end within the frames the interpreter allows, the call
\* is aborted with RecursionError and returns no tree
GetTree(tool, parent_id, all, root_id) ==
    /\ Serving
    /\ tool \in RegisteredNames
    /\ call' = IF Exhausts(parent_id, root_id, RecursionLimit)
               THEN [tool |-> tool, thread |-> RunsOn(tool), pc |-> "raised",
                     parent_id |-> parent_id, all |-> all, root_id |-> root_id,
                     result |-> [exc |-> "RecursionError"]]
               ELSE [tool |-> tool, thread |-> RunsOn(tool), pc |-> "done",
                     parent_id |-> parent_id, all |-> all, root_id |-> root_id,
                     result |-> _build(all, parent_id, root_id)]
    /\ UNCHANGED << imported, registry, dispatch_vars, pair_vars, inbound_vars >>

(***************************************************************************)
(* Rows built by hand under a fields parameter: list_parts, get_stock_item *)
(* and get_category, one for each way the tools compute `want`.            *)
(***************************************************************************)
\* the fields argument: None, or a list of names
NoFields == [given |-> FALSE, names |-> <<>>]
FieldLists(names) ==
    { NoFields } \cup { [given |-> TRUE, names |-> s] : s \in SeqsUpTo(names, MaxFields) }

Range(s) == { s[i] : i \in DOMAIN s }

\* `v or ""`
OrEmpty(v) == IF v \in {"None", ""} THEN "" ELSE v

Want_keeps_default(fields, default) == default

\* want = set(fields) if fields is not None else <default>
Want(fields, default) == IF fields.given THEN Range(fields.names) ELSE default

\* want is None or k in want  (the tools whose default is `None`)
WantedOrAll(fields, k) == ~ fields.given \/ k \in Range(fields.names)

_PART_COLS == {"name", "description", "category", "active", "IPN", "revision", "units"}

\* the row of one part in list_parts (lines 49, 77-90 of tools/simple/parts.py)
list_parts_row(p, fields) ==
    LET want == Want(fields, _PART_COLS \cup {"id", "total_stock", "tags"})
        keys == _PART_COLS \cup {"total_stock", "tags"}
        value == [k \in {"id"} \cup keys |->
                    CASE k = "id" -> p.pk
                      [] k = "name" -> p.name
                      [] k = "description" -> p.description
                      [] k = "category" -> p.category_id
                      [] k = "active" -> p.active
                      [] k = "IPN" -> OrEmpty(p.IPN)
                      [] k = "revision" -> OrEmpty(p.revision)
                      [] k = "units" -> OrEmpty(p.units)
                      [] k = "total_stock" -> p.total_stock
                      [] k = "tags" -> p.tags]
    IN  [k \in {"id"} \cup (keys \cap want) |-> value[k]]

\* detail_cols of get_stock_item
detail_cols == {"part", "quantity", "location", "serial", "batch", "status", "notes",
                "updated"}

\* get_stock_item (lines 96-145 of tools/simple/stock.py)
get_stock_item_row(item, fields) ==
    LET want == Want(fields, detail_cols \cup {"id", "part_name", "location_name"})
        keys == detail_cols \cup {"part_name", "location_name"}
        value == [k \in {"id"} \cup keys |->
                    CASE k = "id" -> item.pk
                      [] k = "part" -> item.part_id
                      [] k = "part_name" -> item.part_name
                      [] k = "quantity" -> item.quantity
                      [] k = "location" -> item.location_id
                      [] k = "location_name" -> item.location_name
                      [] k = "serial" -> item.serial
                      [] k = "batch" -> item.batch
                      [] k = "status" -> item.status
                      [] k = "notes" -> OrEmpty(item.notes)
                      [] k = "updated" -> item.updated]
    IN  [k \in {"id"} \cup (keys \cap want) |-> value[k]]

\* get_category (lines 69-85 of tools/simple/categories.py)
get_category_row(cat, fields) ==
    LET keys == {"name", "description", "parent", "pathstring", "parts_count",
                 "children_count"}
        value == [k \in {"id"} \cup keys |->
                    CASE k = "id" -> cat.pk
                      [] k = "name" -> cat.name
                      [] k = "description" -> cat.description
                      [] k = "parent" -> cat.parent_id
                      [] k = "pathstring" -> cat.pathstring
                      [] k = "parts_count" -> cat.parts_count
                      [] k = "children_count" -> cat.children_count]
    IN  [k \in {"id"} \cup { f \in keys : WantedOrAll(fields, f) } |-> value[k]]

RowTools == {"list_parts", "get_stock_item", "get_category"}

\* the rows of the store the row tools are called on
Entities(tool) ==
    CASE tool = "list_parts" ->
           { [pk |-> 1, name |-> "Resistor", description |-> "10k", category_id |-> 5,
              active |-> TRUE, IPN |-> "R-10", revision |-> "None", units |-> "",
              total_stock |-> 12, tags |-> << "smd" >>],
             [pk |-> 2, name |-> "Cap", description |-> "", category_id |-> 0,
              active |-> FALSE, IPN |-> "None", revision |-> "B", units |-> "pcs",
              total_stock |-> 0, tags |-> <<>>] }
      [] tool = "get_stock_item" ->
           { [pk |-> 7, part_id |-> 1, part_name |-> "Resistor", quantity |-> 3,
              location_id |-> 4, location_name |-> "Shelf", serial |-> "None",
              batch |-> "b1", status |-> 10, notes |-> "None", updated |-> "2024-01-01"],
             [pk |-> 8, part_id |-> 2, part_name |-> "Cap", quantity |-> 0,
              location_id |-> 0, location_name |-> "None", serial |-> "s8",
              batch |-> "None", status |-> 50, notes |-> "kept", updated |-> "None"] }
      [] tool = "get_category" ->
           { [pk |-> 3, name |-> "Passives", description |-> "", parent_id |-> 0,
              pathstring |-> "Passives", parts_count |-> 2, children_count |-> 1],
             [pk |-> 4, name |-> "Caps", description |-> "C", parent_id |-> 3,
              pathstring |-> "Passives/Caps", parts_count |-> 0, children_count |-> 0] }

\* the names a caller may put in fields: the documented ones and one that no
\* tool knows
FieldNames(tool) ==
    {"id", "bogus"} \cup
    (CASE tool = "list_parts" -> _PART_COLS \cup {"total_stock", "tags"}
       [] tool = "get_stock_item" -> detail_cols \cup {"part_name", "location_name"}
       [] tool = "get_category" -> {"name", "description", "parent", "pathstring",
                                    "parts_count", "children_count"})

RowFor(tool, entity, fields) ==
    CASE tool = "list_parts" -> list_parts_row(entity, fields)
      [] tool = "get_stock_item" -> get_stock_item_row(entity, fields)
      [] tool = "get_category" -> get_category_row(entity, fields)

\* the engine calls a row tool for one row of the store
GetRow(tool, entity, fields) ==
    /\ Serving
    /\ tool \in RegisteredNames
    /\ call' = [tool |-> tool, thread |-> RunsOn(tool), pc |-> "done",
                entity |-> entity, fields |-> fields,
                result |-> RowFor(tool, entity, fields)]
    /\ UNCHANGED << imported, registry, dispatch_vars, pair_vars, inbound_vars >>

(***************************************************************************)
(* _project (tools/__init__.py), the projection of a row dict the list     *)
(* tools for tags, categories and locations apply to every row they build. *)
(***************************************************************************)
\* row dicts _project is applied to: the rows list_tags builds, a row with
\* no "id" entry, and the empty dict
ProjectRows ==
    { [id |-> 1, name |-> "smd", slug |-> "smd"],
      [id |-> 2, name |-> "Through Hole", slug |-> "through-hole"],
      [name |-> "smd", slug |-> "smd"],
      [k \in {} |-> 0] }

\* the names a caller may put in fields
ProjectFieldNames == {"id", "name", "slug", "bogus"}

_project_drops_id(row, fields) ==
    IF ~ fields.given
    THEN [is_row |-> TRUE, value |-> row]
    ELSE LET keep == Range(fields.names)
         IN  [is_row |-> FALSE, value |-> [k \in DOMAIN row \cap keep |-> row[k]]]

\* _project(row, fields): the object returned (row itself, or a new dict)
\* and its entries
_project(row, fields) ==
    IF ~ fields.given
    THEN [is_row |-> TRUE, value |-> row]
    ELSE LET keep == Range(fields.names) \cup {"id"}
         IN  [is_row |-> FALSE, value |-> [k \in DOMAIN row \cap keep |-> row[k]]]

\* a list tool applies _project to a row it has built; `row` is the dict
\* passed in as it is after the call, which no statement of _project assigns
CallProject(row, fields) ==
    /\ Serving
    /\ "list_tags" \in RegisteredNames
    /\ call' = [tool |-> "_project", thread |-> RunsOn("list_tags"), pc |-> "once",
                row0 |-> row, row |-> row, fields |-> fields,
                first |-> [is_row |-> FALSE, value |-> <<>>],
                result |-> _project(row, fields)]
    /\ UNCHANGED << imported, registry, dispatch_vars, pair_vars, inbound_vars >>

\* the result is projected again with the same fields
ProjectAgain ==
    /\ call.tool = "_project"
    /\ call.pc = "once"
    /\ call' = [call EXCEPT !.pc = "twice",
                            !.result = _project(call.result.value, call.fields),
                            !.first = call.result]
    /\ UNCHANGED << imported, registry, dispatch_vars, pair_vars, inbound_vars >>

\* the engine calls one of the other registered tools; of these calls the
\* model keeps the thread the function body runs on
CallOtherTool(tool) ==
    /\ Serving
    /\ tool \in RegisteredNames \ ({"delete_parts"} \cup TreeTools \cup RowTools)
    /\ call' = [tool |-> tool, thread |-> RunsOn(tool), pc |-> "done"]
    /\ UNCHANGED << imported, registry, dispatch_vars, pair_vars, inbound_vars >>

\* The engine serves tool calls once the server module is imported; Serving
\* is tested before the arguments of a call are drawn.
EngineCallsDeleteParts ==
    /\ Serving
    /\ \E part_ids \in SeqsUpTo(PartIdInputs, MaxPartIds), flag \in BOOLEAN,
          store \in Stores : CallDeleteParts(part_ids, flag, store)

EngineCallsTree ==
    /\ Serving
    /\ \E tool \in TreeTools, parent_id \in ParentLinks, all \in NameOrders,
          root_id \in 0..(MaxNodes + 1) : GetTree(tool, parent_id, all, root_id)

EngineCallsRow ==
    /\ Serving
    /\ \E tool \in RowTools :
          \E entity \in Entities(tool), fields \in FieldLists(FieldNames(tool)) :
             GetRow(tool, entity, fields)

EngineCallsProject ==
    /\ Serving
    /\ \E row \in ProjectRows, fields \in FieldLists(ProjectFieldNames) :
          CallProject(row, fields)

EngineCallsOtherTool ==
    /\ Serving
    /\ \E tool \in RegisteredNames : CallOtherTool(tool)

NextTools ==
    \/ ImportToolModule
    \/ EngineCallsDeleteParts
    \/ DeletePartsIteration
    \/ DeletePartsReturn
    \/ EngineCallsTree
    \/ EngineCallsRow
    \/ EngineCallsProject
    \/ ProjectAgain
    \/ EngineCallsOtherTool

SpecTools == InitTools /\ [][NextTools]_vars

(***************************************************************************)
(* Vocabulary of the tool properties.                                      *)
(***************************************************************************)
\* the elements of ids at the positions marked m, in order
RECURSIVE Pick(_, _, _)
Pick(ids, marks, m) ==
    IF ids = <<>> THEN <<>>
    ELSE (IF Head(marks) = m THEN << Head(ids) >> ELSE <<>>)
         \o Pick(Tail(ids), Tail(marks), m)

\* the part of part_ids the loop of delete_parts has been through
Processed == SubSeq(call.part_ids, 1, call.i - 1)

SkippedIds == [j \in DOMAIN call.skipped |-> call.skipped[j].id]

\* a part delete_parts must leave alone
Protected(id) ==
    /\ id \in StoredPartIds
    /\ \/ call.store[id].locked
       \/ call.store[id].in_bom /\ ~ call.delete_from_assemblies

\* all entries of a tree, at any depth
RECURSIVE Entries(_)
Entries(tree) ==
    UNION { { tree[i] } \cup Entries(tree[i].children) : i \in DOMAIN tree }

\* the number of entries of a tree, at any depth
RECURSIVE TreeSize(_)
TreeSize(tree) ==
    IF tree = <<>> THEN 0
    ELSE 1 + TreeSize(Head(tree).children) + TreeSize(Tail(tree))

\* the rows below root under the parent links p (all rows, for root None)
Descendants(p, root) ==
    { n \in Nodes : \E k \in 1..MaxNodes : Up(p, n, k) = root /\ Up(p, n, k - 1) # 0 }

\* a list of entries holds exactly the rows with this parent, in name order
ChildrenOf(entries, p, all, parent) ==
    /\ { entries[i].id : i \in DOMAIN entries } = { n \in Nodes : p[n] = parent }
    /\ Len(entries) = Cardinality({ n \in Nodes : p[n] = parent })
    /\ \A i, j \in DOMAIN entries : i < j =>
          \E a, b \in DOMAIN all : a < b /\ all[a] = entries[i].id /\ all[b] = entries[j].id

\* a row restricted to some keys
Restrict(row, keys) == [k \in DOMAIN row \cap keys |-> row[k]]

(***************************************************************************)
(* C14 (as claimed): every registered tool is wrapped by django_orm, and   *)
(* every tool call runs its body on a worker thread, never on the thread   *)
(* of the event loop; delete_parts included.                               *)
(***************************************************************************)
C14_EveryToolOffloaded ==
    /\ \A i \in DOMAIN registry : registry[i].django_orm
    /\ call.tool # "none" => call.thread = "worker"

(***************************************************************************)
(* C15: in delete_parts, every position of part_ids the loop has been      *)
(* through went to exactly one of deleted and skipped, each list keeping   *)
(* input order; the result has deleted_count = len(deleted), skipped_count *)
(* = len(skipped) and deleted_count + skipped_count = len(part_ids).       *)
(***************************************************************************)
C15_EveryPositionDeletedOrSkipped ==
    call.tool = "delete_parts" =>
        /\ \E marks \in [DOMAIN Processed -> {"deleted", "skipped"}] :
              /\ Pick(Processed, marks, "deleted") = call.deleted
              /\ Pick(Processed, marks, "skipped") = SkippedIds
        /\ Len(call.deleted) + Len(call.skipped) = Len(Processed)
        /\ call.pc = "done" =>
              /\ Processed = call.part_ids
              /\ call.result.deleted = call.deleted
              /\ call.result.skipped = call.skipped
              /\ call.result.deleted_count = Len(call.result.deleted)
              /\ call.result.skipped_count = Len(call.result.skipped)
              /\ call.result.deleted_count + call.result.skipped_count
                    = Len(call.part_ids)

\* a repeated id: deleted at its first position, not found at its second;
\* and an id of no row
C15_Witness ==
    /\ call.tool = "delete_parts"
    /\ call.pc = "done"
    /\ Len(call.part_ids) = MaxPartIds
    /\ \E j \in DOMAIN call.part_ids : j > 1 /\ call.part_ids[j] = call.part_ids[1]
    /\ call.result.deleted = << call.part_ids[1] >>
    /\ call.result.skipped_count = MaxPartIds - 1
    /\ \A j \in DOMAIN call.skipped : call.skipped[j].reason = "Part not found"

(***************************************************************************)
(* C16: delete_parts calls neither save nor delete on a part that is       *)
(* locked, nor on a sub-part of a BOM while delete_from_assemblies is      *)
(* false: such a part stays in the store and every position naming it is   *)
(* reported in skipped, with reason "Part is locked" (also when it is a    *)
(* sub-part: the lock is checked first) or "Part is used in assemblies".   *)
(* With delete_from_assemblies true, delete is called on an unlocked       *)
(* sub-part, which is reported deleted when that call returns.             *)
(***************************************************************************)
C16_LockedAndAssemblyPartsAreKept ==
    call.tool = "delete_parts" =>
        /\ \A k \in DOMAIN call.orm :
              call.orm[k].op \in {"save", "delete"} => ~ Protected(call.orm[k].id)
        /\ \A id \in StoredPartIds : Protected(id) =>
              /\ call.store[id].exists
              /\ \A j \in DOMAIN call.deleted : call.deleted[j] # id
              /\ Cardinality({ j \in DOMAIN call.skipped : call.skipped[j].id = id })
                    = Cardinality({ j \in DOMAIN Processed : Processed[j] = id })
              /\ \A j \in DOMAIN call.skipped : call.skipped[j].id = id =>
                    call.skipped[j].reason =
                        IF call.store[id].locked THEN "Part is locked"
                        ELSE "Part is used in assemblies"
        /\ \A id \in StoredPartIds :
              ( /\ call.delete_from_assemblies
                /\ ~ call.store[id].locked
                /\ call.store[id].in_bom
                /\ \E j \in DOMAIN Processed : Processed[j] = id )
              => /\ \E k \in DOMAIN call.orm : call.orm[k] = [op |-> "delete", id |-> id]
                 /\ ~ call.store[id].delete_raises =>
                       /\ \E j \in DOMAIN call.deleted : call.deleted[j] = id
                       /\ ~ call.store[id].exists

\* a locked sub-part and an unlocked sub-part in one call with
\* delete_from_assemblies true: the first is kept, the second deleted
C16_Witness ==
    /\ call.tool = "delete_parts"
    /\ call.pc = "done"
    /\ call.delete_from_assemblies
    /\ call.part_ids = << 1, 2 >>
    /\ call.store[1].locked /\ call.store[1].in_bom
    /\ ~ call.store[2].locked /\ call.store[2].in_bom
    /\ call.result.deleted = << 2 >>
    /\ call.result.skipped = << [id |-> 1, name |-> << "Part", 1 >>,
                                 reason |-> "Part is locked"] >>

(***************************************************************************)
(* C17: over parent links that form a forest, get_category_tree(root_id)   *)
(* and get_location_tree(root_id) return as top-level entries exactly the  *)
(* rows whose parent is root_id (all top-level rows for root_id None),     *)
(* never the row root_id itself; the children of every entry, at any       *)
(* depth, are exactly the rows whose parent is that entry; siblings are in *)
(* the name order of the fetch; the entries are exactly the rows below     *)
(* root_id, each once; a leaf or an unknown root_id gives the empty list.  *)
(***************************************************************************)
C17_TreeIsTheForestBelowRoot ==
    (call.tool \in TreeTools /\ call.parent_id \in Forests) =>
        LET p == call.parent_id
            root == call.root_id
            tree == call.result
        IN  /\ ChildrenOf(tree, p, call.all, root)
            /\ \A e \in Entries(tree) :
                  /\ ChildrenOf(e.children, p, call.all, e.id)
                  /\ e.name = NameOf(call.all, e.id)
                  /\ e.id # root
            /\ { e.id : e \in Entries(tree) } = Descendants(p, root)
            /\ TreeSize(tree) = Cardinality(Descendants(p, root))
            /\ (root \notin Nodes \cup {0} \/ \A n \in Nodes : p[n] # root) => tree = <<>>

\* a chain as deep as the table allows, below root_id None, fetched in an
\* order that is not the order of the keys
C17_Witness ==
    /\ call.tool = "get_category_tree"
    /\ call.pc = "done"
    /\ call.root_id = 0
    /\ \A n \in Nodes : call.parent_id[n] = n - 1
    /\ call.all[1] = MaxNodes
    /\ Len(call.result) = 1
    /\ TreeSize(call.result) = MaxNodes
    /\ call.result[1].children[1].id = 2

(***************************************************************************)
(* C18: for list_parts, get_stock_item and get_category, the row returned  *)
(* for a list fields (empty, with unknown names, with duplicates) is the   *)
(* row returned for fields = None restricted to the names in fields and    *)
(* "id": id is always present, unknown names add nothing, and the empty    *)
(* list gives the row with id alone.                                       *)
(***************************************************************************)
C18_FieldsRestrictTheFullRow ==
    (call.tool \in RowTools /\ call.fields.given) =>
        /\ call.result = Restrict(RowFor(call.tool, call.entity, NoFields),
                                  Range(call.fields.names) \cup {"id"})
        /\ "id" \in DOMAIN call.result
        /\ "bogus" \notin DOMAIN call.result
        /\ call.fields.names = <<>> => DOMAIN call.result = {"id"}

\* an unknown name and a derived column together
C18_Witness ==
    /\ call.tool = "get_stock_item"
    /\ call.fields.given
    /\ call.fields.names = << "bogus", "location_name" >>
    /\ DOMAIN call.result = {"id", "location_name"}
    /\ call.result["location_name"] = "Shelf"

(***************************************************************************)
(* C19 (as claimed): once mcp_server is imported, the names registered     *)
(* with the engine are exactly the 27 names of _EXPECTED_TOOLS, none       *)
(* missing and none extra, and the required parameters of every tool       *)
(* include those _EXPECTED_TOOLS lists.                                    *)
(***************************************************************************)
C19_RegistryIsTheExpectedTools ==
    imported = Len(ToolModules) =>
        /\ RegisteredNames = { t.name : t \in _EXPECTED_TOOLS }
        /\ Cardinality(RegisteredNames) = 27
        /\ Len(registry) = 27
        /\ \A t \in _EXPECTED_TOOLS : \A i \in DOMAIN registry :
              registry[i].name = t.name => t.required \subseteq registry[i].required

(***************************************************************************)
(* C20: once the timeout has fired, the response dispatch returns is the   *)
(* fixed 504 envelope, whatever start or body events the send closure      *)
(* recorded before the timeout or records while the exchange is being      *)
(* cancelled: it carries no header and no engine body, and its status is   *)
(* 504 even when the engine recorded another one.                          *)
(***************************************************************************)
C20_TimeoutIsAuthoritative ==
    (timed_out /\ pc \in {"finally", "close_loop", "returned"})
        => /\ path = "timeout"
           /\ response = TimeoutResponse
           /\ HeaderItems(response) = {}
           /\ "content" \notin DOMAIN response
           /\ StartIndices # {} => response.status # RecordedStart.status

C20_Witness ==
    /\ pc = "returned"
    /\ timed_out
    /\ sent_at_timeout > 0
    /\ Len(sent) > sent_at_timeout
    /\ \E i \in StartIndices : i > sent_at_timeout
    /\ \E i \in BodyIndices : i <= sent_at_timeout
    /\ response.status = 504

(***************************************************************************)
(* C21: when the engine sends more than one response-start event in one    *)
(* exchange, the web response of the normal return carries the status of   *)
(* the first start event; later start events do not change it.             *)
(***************************************************************************)
C21_FirstStartWins ==
    (pc = "returned" /\ path = "return" /\ StartIndices # {})
        => response.status =
              sent[CHOOSE i \in StartIndices : \A j \in StartIndices : i <= j].status

(***************************************************************************)
(* C22: when the per-request event loop is closed, no task created on it   *)
(* is still pending, the tasks created while the cancellation was being    *)
(* processed included.                                                     *)
(***************************************************************************)
C22_NoTaskPendingAtClose ==
    loops_closed = 1 => (tasks_pending = 0 /\ tasks_late = 0)

(***************************************************************************)
(* C23: once the run() block of the session has been entered it is exited  *)
(* before dispatch leaves the exchange, on every exit path: the normal     *)
(* return of handle_request, an exception raised by it, and the            *)
(* cancellation of the exchange by the timeout.                            *)
(***************************************************************************)
C23_RunBlockExitedOnEveryPath ==
    /\ pc \in {"except", "finally", "close_loop", "returned"} => run_entered # "entered"
    /\ (pc = "returned" /\ handle_calls = 1) => run_entered = "exited"

C23_Witness ==
    /\ pc = "returned"
    /\ handle_calls = 1
    /\ timed_out
    /\ path = "timeout"
    /\ run_entered = "exited"

(***************************************************************************)
(* C28: when dispatch has returned a 504 after a timeout and closed the    *)
(* loop, no tool function the exchange started on a worker thread is still *)
(* executing.                                                              *)
(***************************************************************************)
C28_NoToolRunsAfter504 ==
    (pc = "returned" /\ path = "timeout" /\ loops_closed = 1) => worker # "running"

(***************************************************************************)
(* The inbound side of one exchange: _build_asgi_scope and the receive     *)
(* closure of _handle_mcp_request.  One behaviour of SpecInbound builds    *)
(* the scope of one request and lets the engine call receive.              *)
(***************************************************************************)
\* "content-length"
ContentLengthName ==
    << 99, 111, 110, 116, 101, 110, 116, 45, 108, 101, 110, 103, 116, 104 >>

\* keys of request.headers: "Content-Length", "content-length",
\* "CONTENT-LENGTH", "Accept", "X-Id"
RequestHeaderNames ==
    { << 67, 111, 110, 116, 101, 110, 116, 45, 76, 101, 110, 103, 116, 104 >>,
      ContentLengthName,
      << 67, 79, 78, 84, 69, 78, 84, 45, 76, 69, 78, 71, 84, 72 >>,
      << 65, 99, 99, 101, 112, 116 >>,
      << 88, 45, 73, 100 >> }

\* values of request.headers: "7", "99"
RequestHeaderValues == { << 55 >>, << 57, 57 >> }

\* request.headers.items(): a mapping, so no key occurs twice
RequestHeaderLists ==
    { h \in SeqsUpTo(RequestHeaderNames \X RequestHeaderValues, MaxRequestHeaders) :
        \A i, j \in DOMAIN h : h[i][1] = h[j][1] => i = j }

\* request.body: n bytes "x"
RequestBodies == { [i \in 1..n |-> 120] : n \in 0..MaxBodyLen }

\* str.encode("latin-1") on the text of a WSGI request, whose code points
\* are below 256: the character with code point c becomes byte c
EncodeLatin1(text) == [i \in DOMAIN text |-> text[i] % 256]

\* str(n) for n >= 0: the decimal digits of n
RECURSIVE Str(_)
Str(n) == IF n < 10 THEN << 48 + n >> ELSE Str(n \div 10) \o << 48 + (n % 10) >>

IsContentLength_case_sensitive(key) == key = ContentLengthName

\* the test `key.lower() != "content-length"` of the comprehension, negated
IsContentLength(key) == Lower(key) = ContentLengthName

\* _build_asgi_scope: the header list and the fixed entries of the scope
_build_asgi_scope(req) ==
    LET body == req.body
        kept == SelectSeq(req.headers, LAMBDA kv : ~ IsContentLength(kv[1]))
        headers == [i \in DOMAIN kept |->
                       << EncodeLatin1(Lower(kept[i][1])), EncodeLatin1(kept[i][2]) >>]
    IN  [type |-> "http",
         http_version |-> "1.1",
         headers |-> Append(headers,
                            << EncodeLatin1(ContentLengthName),
                               EncodeLatin1(Str(Len(body))) >>)]

\* the receive closure: every call returns the same message
receive(body) == [type |-> "http.request", body |-> body, more_body |-> FALSE]

NoScope == [type |-> "none", http_version |-> "", headers |-> <<>>]

InitInbound ==
    /\ inbound \in { [pc |-> "build_scope", request |-> [headers |-> h, body |-> b],
                      scope |-> NoScope, received |-> <<>>] :
                        h \in RequestHeaderLists, b \in RequestBodies }
    /\ DispatchIdle
    /\ PairIdle
    /\ ToolsIdle

\* body = request.body; scope = _build_asgi_scope(request)
InboundBuildScope ==
    /\ inbound.pc = "build_scope"
    /\ inbound' = [inbound EXCEPT !.pc = "serving",
                                  !.scope = _build_asgi_scope(inbound.request)]
    /\ UNCHANGED << dispatch_vars, pair_vars, tool_vars >>

\* the engine awaits receive()
Receive ==
    /\ inbound.pc = "serving"
    /\ Len(inbound.received) < MaxReceives
    /\ inbound' = [inbound EXCEPT !.received = Append(@, receive(inbound.request.body))]
    /\ UNCHANGED << dispatch_vars, pair_vars, tool_vars >>

NextInbound ==
    \/ InboundBuildScope
    \/ Receive

SpecInbound == InitInbound /\ [][NextInbound]_vars

\* two header names that differ at most in the case of their ASCII letters
SameNameIgnoringCase(a, b) ==
    /\ Len(a) = Len(b)
    /\ \A i \in DOMAIN a :
          \/ a[i] = b[i]
          \/ a[i] \in 65..90 /\ b[i] = a[i] + 32
          \/ b[i] \in 65..90 /\ a[i] = b[i] + 32

\* the number a sequence of decimal digits denotes
RECURSIVE DecimalValue(_)
DecimalValue(digits) ==
    IF digits = <<>> THEN 0
    ELSE 10 * DecimalValue(SubSeq(digits, 1, Len(digits) - 1))
         + (digits[Len(digits)] - 48)

\* positions of the request headers that are not a content-length header
OtherHeaderIndices ==
    { i \in DOMAIN inbound.request.headers :
        ~ SameNameIgnoringCase(inbound.request.headers[i][1], ContentLengthName) }

(***************************************************************************)
(* C24: the inbound channel delivers the request body exactly once: the    *)
(* first call of receive returns the full body with more_body false, and   *)
(* no later call of receive delivers the body again.                       *)
(***************************************************************************)
C24_BodyDeliveredOnce ==
    inbound.pc = "serving" =>
        /\ Len(inbound.received) >= 1 =>
              /\ inbound.received[1].type = "http.request"
              /\ inbound.received[1].body = inbound.request.body
              /\ inbound.received[1].more_body = FALSE
        /\ \A i \in DOMAIN inbound.received :
              i > 1 => inbound.received[i].type # "http.request"

(***************************************************************************)
(* C25: the header list of the scope holds every request header other than *)
(* content-length (matched case-insensitively), its name lower-cased, in   *)
(* the order of the request, followed by exactly one content-length entry  *)
(* whose value is the decimal byte length of the body, also when the       *)
(* request had no content-length header or a wrong one.                    *)
(***************************************************************************)
C25_ScopeHeaders ==
    inbound.pc = "serving" =>
        LET H == inbound.scope.headers
            R == inbound.request.headers
            n == Len(H)
        IN  /\ n = Cardinality(OtherHeaderIndices) + 1
            /\ H[n][1] = ContentLengthName
            /\ \A d \in DOMAIN H[n][2] : H[n][2][d] \in 48..57
            /\ Len(H[n][2]) > 1 => H[n][2][1] # 48
            /\ DecimalValue(H[n][2]) = Len(inbound.request.body)
            /\ \A i \in 1..(n - 1) : H[i][1] # ContentLengthName
            \* the k-th other header of the request is the k-th entry
            /\ \A j \in OtherHeaderIndices :
                  LET k == Cardinality({ m \in OtherHeaderIndices : m <= j })
                  IN  /\ H[k][1] = Lower(R[j][1])
                      /\ SameNameIgnoringCase(H[k][1], R[j][1])
                      /\ H[k][2] = R[j][2]

C25_Witness ==
    /\ inbound.pc = "serving"
    /\ Len(inbound.request.body) >= 10
    /\ Len(inbound.request.headers) = 2
    /\ inbound.request.headers[1][1][1] = 67
    /\ SameNameIgnoringCase(inbound.request.headers[1][1], ContentLengthName)
    /\ inbound.request.headers[1][2] = << 55 >>
    /\ inbound.request.headers[2][1] = << 88, 45, 73, 100 >>
    /\ Len(inbound.scope.headers) = 2
    /\ inbound.scope.headers[1][1] = << 120, 45, 105, 100 >>
    /\ inbound.scope.headers[2][2] = << 49, 49 >>

\* the positions of the log of store calls at which `op` was called on `id`
OrmCalls(op, id) ==
    { j \in DOMAIN call.orm : call.orm[j] = [op |-> op, id |-> id] }

(***************************************************************************)
(* C26: for every part delete_parts deletes, the deactivation (active set  *)
(* to False and saved) comes before the delete call; save is called        *)
(* exactly once if the part was active and not at all if it was inactive.  *)
(***************************************************************************)
C26_DeactivatedBeforeDelete ==
    call.tool = "delete_parts" =>
        \A k \in DOMAIN call.deleted :
            LET id == call.deleted[k]
            IN  /\ Cardinality(OrmCalls("delete", id)) = 1
                /\ Cardinality(OrmCalls("save", id)) =
                      IF call.store0[id].active THEN 1 ELSE 0
                /\ \A sv \in OrmCalls("save", id), dl \in OrmCalls("delete", id) : sv < dl
                /\ ~ call.store[id].active

C26_Witness ==
    /\ call.tool = "delete_parts"
    /\ call.pc = "done"
    /\ call.deleted = << 1, 2 >>
    /\ call.store0[1].active
    /\ ~ call.store0[2].active
    /\ OrmCalls("save", 1) # {}
    /\ OrmCalls("save", 2) = {}

(***************************************************************************)
(* C29: every part delete_parts reports in skipped is left unchanged in    *)
(* the store (its active flag in particular), whatever the reason of the   *)
(* skip, a failure raised by the delete call included.                     *)
(***************************************************************************)
C29_SkippedPartsUnchanged ==
    call.tool = "delete_parts" =>
        \A k \in DOMAIN call.skipped :
            LET id == call.skipped[k].id
            IN  (id \in StoredPartIds /\ id \notin Range(call.deleted))
                    => call.store[id] = call.store0[id]

(***************************************************************************)
(* C30: get_category_tree and get_location_tree come to an end with their  *)
(* tree for every table and every root_id, tables whose parent links form  *)
(* a cycle and a root_id on that cycle included.                           *)
(***************************************************************************)
C30_TreeToolsTerminate ==
    call.tool \in TreeTools => call.pc = "done"

(***************************************************************************)
(* C27: _project(row, fields) returns row itself when fields is None and   *)
(* otherwise exactly the entries of row whose key is in fields or is "id"; *)
(* names in fields that are no key of row are ignored, row is not          *)
(* modified, and projecting the result again with the same fields gives    *)
(* the same entries.                                                       *)
(***************************************************************************)
C27_ProjectKeepsFieldsAndId ==
    call.tool = "_project" =>
        LET once == IF call.pc = "once" THEN call.result ELSE call.first
            wanted == { k \in DOMAIN call.row0 :
                          k = "id" \/ \E i \in DOMAIN call.fields.names :
                                         call.fields.names[i] = k }
        IN  /\ call.row = call.row0
            /\ ~ call.fields.given => (once.is_row /\ once.value = call.row0)
            /\ call.fields.given =>
                  /\ DOMAIN once.value = wanted
                  /\ \A k \in wanted : once.value[k] = call.row0[k]
            /\ call.pc = "twice" => call.result.value = once.value

C27_Witness ==
    /\ call.tool = "_project"
    /\ call.pc = "twice"
    /\ call.fields = [given |-> TRUE, names |-> << "bogus", "name" >>]
    /\ DOMAIN call.row0 = {"id", "name", "slug"}
    /\ DOMAIN call.first.value = {"id", "name"}
    /\ call.result.value = call.first.value

============================================================================
